---- MODULE Spec2Model ----
(***************************************************************************)
(* Distraction control of the pomo focus timer.                            *)
(*                                                                         *)
(* Two processes are modelled:                                             *)
(*   - the renderer (src/renderer.js, second copy, lines 520-1030): the    *)
(*     session state machine, the kill list and the relaunch hand-off;     *)
(*   - the main process (src/main.js): the 'apps:kill' handler with its    *)
(*     concurrent exec callbacks, the 'apps:relaunch' handler and the      *)
(*     'apps:list' handler with its three parse functions.                 *)
(* They talk over three FIFO IPC channels (src/unnamed/part_000).          *)
(* Each action is one run-to-completion task of one process's event loop.  *)
(***************************************************************************)
EXTENDS Integers, Sequences, FiniteSets, TLC

\* ------------------------------------------------------------------ bounds
\* Kill invocations that may be in flight at once.
MaxInFlight == 1
\* Unhandled 'apps:relaunch' messages that may be queued towards main.
MaxRelaunchQueue == 1

\* ------------------------------------------------------- program constants
SecondsPerMinute == 60
DefaultFocusTime == 25
DefaultBreakTime == 5

\* --------------------------------------------------------------- universes
InvIds == 1..MaxInFlight

Platforms == {"win32", "darwin", "linux", "other"}

\* What the operating system does with one termination command.
Outcomes == {"killed", "notfound", "denied"}

\* The platforms of the session model.  The renderer sees of the Terminator
\* only its replies, and every reply another platform can produce (all names
\* confirmed, or none) is one that win32 can produce as well.
SessionPlatforms == {"win32"}

Slack == [id |-> "slack", display |-> "Slack", detail |-> "/Applications/Slack.app"]

\* The descriptors the picker offers.
Apps == {Slack}

\* Second copies of an application, installed elsewhere, and other
\* applications: what the picker of the kill-list model offers.
SlackCopy == [id |-> "slack", display |-> "Slack", detail |-> "/Users/me/Slack.app"]
Zoom == [id |-> "zoom", display |-> "Zoom", detail |-> "/Applications/zoom.us.app"]
ZoomCopy == [id |-> "zoom", display |-> "Zoom", detail |-> "/Users/me/zoom.us.app"]
Mail == [id |-> "mail", display |-> "Mail", detail |-> "/Applications/Mail.app"]
PickerApps == {Slack, SlackCopy, Zoom, ZoomCopy, Mail}

\* Two processes whose name or command line holds a "|".
SyncDb == [id |-> "sync|db", display |-> "Sync|db", detail |-> "/opt/run"]
Sync == [id |-> "sync", display |-> "Sync", detail |-> "db|/opt/run"]
SeparatorApps == {SyncDb, Sync}

\* Id lists handed to killApps when the Terminator is driven directly.
KillInputs ==
  { <<>>, <<"slack">>, <<"slack", "zoom">>, <<"zoom", "slack">>,
    <<"slack", "slack">>, <<"slack", "zoom", "mail">> }

\* Values parseInt yields for the two duration inputs.
NaN == [nan |-> TRUE, n |-> 0]
Num(k) == [nan |-> FALSE, n |-> k]
FocusTimeChoices == {1}
BreakTimeChoices == {1}

VARIABLES
  \* renderer state (src/renderer.js 553-558 and the DOM inputs)
  timerInterval,    \* handle of the last setInterval, 0 when null
  timers,           \* handles of the interval schedulers that are active
  isRunning,
  isFocus,
  timeLeft,
  appKillList,      \* sequence of descriptors
  killedAppsList,   \* sequence of descriptors
  relaunchOptional, \* relaunchOptionalCheckbox.checked
  focusTimeInput,   \* parseInt(focusTimeInput.value)
  breakTimeInput,   \* parseInt(breakTimeInput.value)
  trayMode,         \* last value passed to window.pomo.setMode
  listeners,        \* 'apps:kill-reply' listeners, in registration order
  \* IPC channels
  killChan,         \* renderer -> main, 'apps:kill'
  replyChan,        \* main -> renderer, 'apps:kill-reply'
  relaunchChan,     \* renderer -> main, 'apps:relaunch'
  \* main process
  platform,         \* process.platform
  jobs,             \* one record per 'apps:kill' handler run
  launches,         \* commands the 'apps:relaunch' handler handed to exec
  \* bookkeeping: which call site issued each invocation that is in flight
  issuedBy,
  \* bookkeeping: the timer handler of the renderer that ran last
  lastOp,
  \* bookkeeping: runs of updateTimer since readConfig last set timeLeft
  \* (session), and, when the last run switched the mode, the number of runs
  \* of the session it ended, that run included (atSwitch, else 0)
  ticks,
  \* the last 'apps:list' call: what exec handed to its callback and the
  \* value the call resolved to (fullAppList in the renderer)
  listing,
  \* how the loadSettings call of initializeSettings ended ("pending" while
  \* initializeSettings is suspended at its await)
  loaded

rendererVars ==
  << timerInterval, timers, isRunning, isFocus, timeLeft, appKillList,
     killedAppsList, relaunchOptional, focusTimeInput, breakTimeInput,
     trayMode, listeners, ticks >>
timerVars == << timerInterval, timers, isRunning, isFocus, timeLeft, trayMode, ticks >>
configVars == << relaunchOptional, focusTimeInput, breakTimeInput >>
mainVars == << platform, jobs, launches >>
vars ==
  << timerInterval, timers, isRunning, isFocus, timeLeft, appKillList,
     killedAppsList, relaunchOptional, focusTimeInput, breakTimeInput,
     trayMode, listeners, killChan, replyChan, relaunchChan, platform, jobs,
     launches, issuedBy, lastOp, ticks, listing, loaded >>

\* ---------------------------------------------------------------- helpers
RECURSIVE SelectSeqBy(_, _)
\* Array.prototype.filter with the predicate given as a set of positions.
SelectSeqBy(s, keep) ==
  IF s = <<>> THEN <<>>
  ELSE LET rest == SelectSeqBy(Tail(s), {i - 1 : i \in keep \ {1}})
       IN IF 1 \in keep THEN <<Head(s)>> \o rest ELSE rest

Range(s) == {s[i] : i \in DOMAIN s}

RemoveAt(s, k) == [i \in 1..(Len(s) - 1) |-> IF i < k THEN s[i] ELSE s[i + 1]]

\* Invocations that are in flight: issued, and their reply not yet consumed.
Live == {i \in DOMAIN issuedBy : issuedBy[i] # "none"}
FreeInv == CHOOSE i \in DOMAIN issuedBy \ Live : \A j \in DOMAIN issuedBy \ Live : i <= j

\* a.display.localeCompare(b.display) for the displays of the model.
CollationRank(display) ==
  CASE display = "Mail" -> 1
    [] display = "slack" -> 2
    [] display = "Slack" -> 3
    [] display = "zoom" -> 4
    [] display = "Zoom" -> 5
    [] OTHER -> 6
LocaleCompare(a, b) ==
  IF CollationRank(a) < CollationRank(b) THEN -1
  ELSE IF CollationRank(a) > CollationRank(b) THEN 1 ELSE 0

RECURSIVE InsertSorted(_, _)
InsertSorted(s, x) ==
  IF s = <<>> THEN <<x>>
  ELSE IF LocaleCompare(x.display, Head(s).display) < 0 THEN <<x>> \o s
  ELSE <<Head(s)>> \o InsertSorted(Tail(s), x)

RECURSIVE SortByDisplay(_)
\* Array.prototype.sort with the display comparator (stable).
SortByDisplay(s) ==
  IF s = <<>> THEN <<>>
  ELSE InsertSorted(SortByDisplay(SubSeq(s, 1, Len(s) - 1)), s[Len(s)])

\* =========================================================================
\* Main process: the Inventory Collector (src/main.js 122-247)
\* =========================================================================

\* Longest process table the listing command prints, in lines (win32, linux)
\* or in running applications (darwin).
MaxProcesses == 2

\* First CSV field of a tasklist line; the last one is a line without any
\* quoted field.
WinLines == {"Slack.exe", "Slack.EXE", "Zoom.exe", "svchost.exe", "a.exe",
             "INFO: no tasks"}
\* Lines of `ps -axco comm=`.
LinuxLines == {"slack", " slack", "zoom", "bash", "sh", "a/b/c"}
\* Names and bundle identifiers System Events reports.
DarwinNames == {"Slack", "Zoom", "Finder", "Electron Helper"}
DarwinIdentifiers == {"com.slack", "us.zoom"}

\* regex.exec(line) in the loop of 139-141 finds a quoted field.
HasField(line) == line # "INFO: no tasks"

\* String.prototype.length of the tokens above.
Length(str) ==
  CASE str \in {"Slack.exe", "Slack.EXE"} -> 9
    [] str = "Zoom.exe" -> 8
    [] str = "svchost.exe" -> 11
    [] str \in {"a.exe", "slack", "a/b/c"} -> 5
    [] str \in {"zoom", "bash"} -> 4
    [] str = "sh" -> 2
    [] str = " slack" -> 6
    [] str = "INFO: no tasks" -> 14

\* imageName.replace(/\.exe$/i, '').trim()   (151)
WithoutExe(imageName) ==
  CASE imageName \in {"Slack.exe", "Slack.EXE"} -> "Slack"
    [] imageName = "Zoom.exe" -> "Zoom"
    [] imageName = "svchost.exe" -> "svchost"
    [] imageName = "a.exe" -> "a"
    [] OTHER -> imageName

\* line.trim()   (211)
Trim(line) == IF line = " slack" THEN "slack" ELSE line

WinBlacklist == {"System", "svchost.exe", "conhost.exe", "explorer.exe",
                 "taskhostw.exe", "audiodg.exe", "lsass.exe", "wininit.exe",
                 "RuntimeBroker.exe", "electron"}
DarwinBlacklist == {"Finder", "Dock", "System Settings", "SystemUIServer",
                    "ControlCenter", "Electron"}
LinuxBlacklist == {"systemd", "kworker", "sh", "bash", "zsh", "gnome-shell",
                   "xfwm4", "kwin_x11", "dbus-daemon", "Xorg", "electron"}

\* name.toLowerCase().includes('electron')   (189)
MentionsElectron(name) == name = "Electron Helper"
\* name.includes('/')   (212)
HasSlash(name) == name = "a/b/c"

RECURSIVE MapValues(_, _)
\* Array.from(appMap.values()) after appMap.set is called, for each entry of
\* found in turn, only when its key is not yet in the map (158, 214).
MapValues(found, keys) ==
  IF found = <<>> THEN <<>>
  ELSE IF Head(found).id \in keys THEN MapValues(Tail(found), keys)
  ELSE <<Head(found)>> \o MapValues(Tail(found), keys \cup {Head(found).id})

\* parseFunction of win32 (129-169)
WinParse(lines) ==
  LET kept == SelectSeqBy(lines,
                {k \in DOMAIN lines :
                   /\ HasField(lines[k])
                   /\ lines[k] \notin WinBlacklist
                   /\ Length(lines[k]) > 5})
      found == [k \in DOMAIN kept |->
                 [ id |-> WithoutExe(kept[k]), display |-> WithoutExe(kept[k]),
                   detail |-> kept[k] ]]
  IN SortByDisplay(MapValues(found, {}))

\* parseFunction of darwin (175-198); out.parts is the number of pieces
\* split('}, {') cuts the output into.
DarwinParse(out) ==
  IF out.parts # 2 THEN <<>>
  ELSE LET kept == {k \in DOMAIN out.names :
                      /\ out.names[k] \notin DarwinBlacklist
                      /\ ~MentionsElectron(out.names[k])}
           found == [k \in DOMAIN out.names |->
                      [ id |-> out.names[k], display |-> out.names[k],
                        detail |-> IF k \in DOMAIN out.identifiers
                                     THEN out.identifiers[k] ELSE out.names[k] ]]
       IN SortByDisplay(SelectSeqBy(found, kept))

\* parseFunction of linux (204-224)
LinuxParse(lines) ==
  LET names == [k \in DOMAIN lines |-> Trim(lines[k])]
      kept == SelectSeqBy(names,
                {k \in DOMAIN names :
                   /\ Length(names[k]) > 3
                   /\ names[k] \notin LinuxBlacklist
                   /\ ~HasSlash(names[k])})
      found == [k \in DOMAIN kept |->
                 [ id |-> kept[k], display |-> kept[k], detail |-> kept[k] ]]
  IN SortByDisplay(MapValues(found, {}))

SeqsUpTo(S, n) == UNION {[1..m -> S] : m \in 0..n}

\* What the listing command of a platform can print on stdout.
Stdouts(plat) ==
  CASE plat = "win32" -> SeqsUpTo(WinLines, MaxProcesses)
    [] plat = "linux" -> SeqsUpTo(LinuxLines, MaxProcesses)
    [] plat = "darwin" ->
         { [parts |-> p, names |-> ns, identifiers |-> ids] :
             p \in 1..3, ns \in SeqsUpTo(DarwinNames, MaxProcesses),
             ids \in SeqsUpTo(DarwinIdentifiers, MaxProcesses) }
    [] OTHER -> {<<>>}

\* No 'apps:list' call has resolved yet.
NoListing == [ called |-> FALSE, failed |-> FALSE, stdout |-> <<>>, result |-> <<>> ]

\* The value ipcMain.handle('apps:list') resolves to (122-247) when exec
\* calls back with (error || stderr) = failed and with stdout = out.
ListResult(plat, failed, out) ==
  IF plat \notin {"win32", "darwin", "linux"}
    THEN << [id |-> "Unsupported", display |-> "Unsupported OS", detail |-> "N/A"] >>
  ELSE IF failed
    THEN << [id |-> "Error", display |-> "Error fetching list",
             detail |-> "error.message || stderr"] >>
  ELSE CASE plat = "win32" -> WinParse(out)
         [] plat = "darwin" -> DarwinParse(out)
         [] OTHER -> LinuxParse(out)

\* window.pomo.listApps() (src/unnamed/part_000 26, src/renderer.js 693-695):
\* the handler runs, exec calls back, and the renderer stores the result.
ListApps(failed, out) ==
  /\ listing' = [ called |-> TRUE, failed |-> failed, stdout |-> out,
                  result |-> ListResult(platform, failed, out) ]
  /\ UNCHANGED << rendererVars, killChan, replyChan, relaunchChan, mainVars,
                  issuedBy, lastOp, loaded >>

\* =========================================================================
\* Main process: the Terminator (src/main.js 253-317)
\* =========================================================================

\* The error object exec hands to its callback for a termination command:
\* taskkill exits 128 when no process matches, killall exits 1.
ExecError(plat, outcome) ==
  CASE outcome = "killed" -> [failed |-> FALSE, code |-> 0]
    [] outcome = "notfound" ->
         [failed |-> TRUE, code |-> IF plat = "win32" THEN 128 ELSE 1]
    [] OTHER -> [failed |-> TRUE, code |-> 1]

\* src/main.js 300: if (!error || (error && error.code !== 128))
Confirmed(error) == ~error.failed \/ (error.failed /\ error.code # 128)

\* Variant: only a missing list is treated as "nothing to kill".
NoApps_OnlyMissing(m) == ~m.defined

\* src/main.js 254
NoApps(m) == ~m.defined \/ Len(m.names) = 0

\* src/main.js 269, 284: the platforms for which a kill command is built.
KillSupported(plat) == plat \in {"win32", "darwin", "linux"}

\* Variant: the join is taken as complete one callback early.
JoinComplete_Early(pendingKills) == pendingKills <= 1

\* src/main.js 292, 312
JoinComplete(pendingKills) == pendingKills = 0

\* Variant: unshift instead of push.
PushKilled_Front(killedList, appName) == <<appName>> \o killedList

\* src/main.js 302: killedList.push(appName)
PushKilled(killedList, appName) == Append(killedList, appName)

\* A job record holds the locals of one handler run (names, pendingKills,
\* killedList) and, as bookkeeping, the exec calls issued (execs), those whose
\* callback has not run (unsettled), the calls settled so far with what the
\* operating system did, in settle order (settled), and the replies sent.
\* No handler run is recorded for the invocation:
NoJob ==
  [ active |-> FALSE, names |-> <<>>, execs |-> 0, unsettled |-> {},
    pendingKills |-> 0, killedList |-> <<>>, replied |-> 0, settled |-> <<>> ]

\* The job record of a handler run that has issued its exec calls.
StartedJob(names) ==
  [ active |-> TRUE, names |-> names, execs |-> Len(names),
    unsettled |-> 1..Len(names), pendingKills |-> Len(names),
    killedList |-> <<>>, replied |-> 0, settled |-> <<>> ]

\* The job record of a handler run that replied without issuing exec calls.
RepliedJob(names) ==
  [ active |-> TRUE, names |-> names, execs |-> 0, unsettled |-> {},
    pendingKills |-> 0, killedList |-> <<>>, replied |-> 1, settled |-> <<>> ]

\* Variant: on a platform without a kill command the handler returns
\* without counting the name off.
MainKill_NoReplyUnsupported ==
  /\ killChan # <<>>
  /\ LET m == Head(killChan) IN
       /\ killChan' = Tail(killChan)
       /\ IF NoApps(m)
            THEN /\ replyChan' = Append(replyChan, [inv |-> m.inv, ids |-> <<>>])
                 /\ jobs' = [jobs EXCEPT ![m.inv] = RepliedJob(<<>>)]
            ELSE IF KillSupported(platform)
            THEN /\ replyChan' = replyChan
                 /\ jobs' = [jobs EXCEPT ![m.inv] = StartedJob(m.names)]
            ELSE /\ replyChan' = replyChan
                 /\ jobs' = [jobs EXCEPT ![m.inv] =
                              [RepliedJob(m.names) EXCEPT !.replied = 0]]
  /\ UNCHANGED << rendererVars, relaunchChan, platform, launches, issuedBy, lastOp,
                  listing, loaded >>

\* ipcMain.on('apps:kill'): the synchronous part of the handler.
MainKill ==
  /\ killChan # <<>>
  /\ LET m == Head(killChan) IN
       /\ killChan' = Tail(killChan)
       /\ IF NoApps(m)
            THEN \* 254-259: reply [] and return
                 /\ replyChan' = Append(replyChan, [inv |-> m.inv, ids |-> <<>>])
                 /\ jobs' = [jobs EXCEPT ![m.inv] = RepliedJob(<<>>)]
            ELSE IF KillSupported(platform)
            THEN \* 264-316: one exec per name, callbacks run later
                 /\ replyChan' = replyChan
                 /\ jobs' = [jobs EXCEPT ![m.inv] = StartedJob(m.names)]
            ELSE \* 289-296: pendingKills-- per name, reply at zero
                 /\ replyChan' = Append(replyChan, [inv |-> m.inv, ids |-> <<>>])
                 /\ jobs' = [jobs EXCEPT ![m.inv] = RepliedJob(m.names)]
  /\ UNCHANGED << rendererVars, relaunchChan, platform, launches, issuedBy, lastOp,
                  listing, loaded >>

\* The callback of one exec call (src/main.js 298-315).
ExecCallback(i, k, outcome) ==
  /\ jobs[i].active
  /\ k \in jobs[i].unsettled
  /\ LET j == jobs[i]
         error == ExecError(platform, outcome)
         killed == IF Confirmed(error) THEN PushKilled(j.killedList, j.names[k])
                   ELSE j.killedList
         pending == j.pendingKills - 1
         reply == JoinComplete(pending)
     IN /\ jobs' = [jobs EXCEPT ![i] =
                      [j EXCEPT !.unsettled = @ \ {k}, !.pendingKills = pending,
                                !.killedList = killed,
                                !.settled = Append(@, [k |-> k, outcome |-> outcome]),
                                !.replied = IF reply THEN @ + 1 ELSE @]]
        /\ replyChan' = IF reply THEN Append(replyChan, [inv |-> i, ids |-> killed])
                        ELSE replyChan
  /\ UNCHANGED << rendererVars, killChan, relaunchChan, platform, launches, issuedBy, lastOp,
                  listing, loaded >>

\* =========================================================================
\* Main process: the Relauncher (src/main.js 319-367)
\* =========================================================================

\* src/main.js 327: appName.trim is a function only for a string; the value
\* the renderer sends is a descriptor object, whose properties are its fields.
HasTrim(appName) == "trim" \in DOMAIN appName

\* src/main.js 331: name.includes('/') || name.includes('\\') ||
\* name.includes(':')
IsPath(name) == HasSlash(name)

\* src/main.js 333-356: the launch command per platform.
LaunchCommand(plat, name) ==
  CASE plat = "win32" -> [prog |-> "start", name |-> name]
    [] plat = "darwin" -> [prog |-> IF IsPath(name) THEN "open" ELSE "open -a",
                           name |-> name]
    [] OTHER -> [prog |-> "", name |-> name]

RECURSIVE RelaunchExecs(_, _)
\* src/main.js 325-366: the exec calls appNames.forEach issues. The TypeError
\* of a value without trim leaves forEach, and the handler, at that element;
\* on a platform without a launch command the callback returns and forEach
\* goes on.
RelaunchExecs(plat, appNames) ==
  IF appNames = <<>> THEN <<>>
  ELSE LET appName == Head(appNames) IN
       IF ~HasTrim(appName) THEN <<>>
       ELSE IF ~KillSupported(plat) THEN RelaunchExecs(plat, Tail(appNames))
       ELSE << LaunchCommand(plat, Trim(appName)) >>
              \o RelaunchExecs(plat, Tail(appNames))

\* ipcMain.handle('apps:relaunch'): the message is taken off the channel and
\* the handler runs to its end (320-323 return for an empty list).
MainRelaunch ==
  /\ relaunchChan # <<>>
  /\ relaunchChan' = Tail(relaunchChan)
  /\ launches' = launches \o RelaunchExecs(platform, Head(relaunchChan))
  /\ UNCHANGED << rendererVars, killChan, replyChan, platform, jobs, issuedBy,
                  lastOp, listing, loaded >>

\* =========================================================================
\* Renderer: timer and hand-off to the Terminator and the Relauncher
\* =========================================================================

\* A string of the model as the sequence of its parts between "|" characters.
Pieces(str) ==
  CASE str = "sync|db" -> << "sync", "db" >>
    [] str = "db|/opt/run" -> << "db", "/opt/run" >>
    [] OTHER -> << str >>

\* Variant: the key keeps id and detail apart.
UniqueKey_Pair(app) == << Pieces(app.id), Pieces(app.detail) >>

\* src/renderer.js 658, 660: `${id}|${detail}`.  Two such strings are equal
\* exactly when their parts between "|" characters are.
UniqueKey(app) == Pieces(app.id) \o Pieces(app.detail)

\* src/renderer.js 868-881; yields timeLeft and the two (possibly rewritten) inputs.
ReadConfig(focus, fIn, bIn) ==
  LET chosen == IF focus THEN fIn ELSE bIn
      newTime == chosen.n * SecondsPerMinute
  IN IF chosen.nan \/ newTime <= 0
       THEN [ timeLeft |-> (IF focus THEN DefaultFocusTime ELSE DefaultBreakTime)
                             * SecondsPerMinute,
              focusTimeInput |-> Num(DefaultFocusTime),
              breakTimeInput |-> Num(DefaultBreakTime) ]
       ELSE [ timeLeft |-> newTime, focusTimeInput |-> fIn, breakTimeInput |-> bIn ]

\* src/renderer.js 892-895
FullDuration ==
  IF isFocus
    THEN IF focusTimeInput.nan THEN DefaultFocusTime * SecondsPerMinute
         ELSE focusTimeInput.n * SecondsPerMinute
    ELSE IF breakTimeInput.nan THEN DefaultBreakTime * SecondsPerMinute
         ELSE breakTimeInput.n * SecondsPerMinute

\* Variant: every start in focus mode counts as a fresh session.
FreshFocus_AnyFocus == isFocus

\* src/renderer.js 898
FreshFocus == isFocus /\ timeLeft = FullDuration

ModeName(focus) == IF focus THEN "focus" ELSE "break"

\* setInterval: the handle of the new scheduler.
NewHandle(ts) == CHOOSE h \in 1..(Cardinality(ts) + 1) :
                   h \notin ts /\ \A g \in 1..(Cardinality(ts) + 1) \ ts : h <= g

\* Variant: a new scheduler is started without clearing the one on record.
RestartInterval_NoClear(ti, ts) ==
  LET h == NewHandle(ts)
  IN [ timerInterval |-> h, timers |-> ts \cup {h} ]

\* if (timerInterval) clearInterval(timerInterval);
\* timerInterval = setInterval(updateTimer, 1000);     (911-912, 927-928)
RestartInterval(ti, ts) ==
  LET cleared == IF ti # 0 THEN ts \ {ti} ELSE ts
      h == NewHandle(cleared)
  IN [ timerInterval |-> h, timers |-> cleared \cup {h} ]

\* Variant: the handle is forgotten without clearInterval.
StoppedTimers_Leak == timers

\* clearInterval(timerInterval); timerInterval = null;   (951-952)
StoppedTimers == timers \ {timerInterval}

\* killAppsAndReport (849-866) up to the point where the caller suspends:
\* the listener is registered and the ids of the kill list are sent.  The
\* listener record keeps, as bookkeeping, the kill list as it stands now.
KillAppsAndReport(kind) ==
  /\ Live # DOMAIN issuedBy
  /\ LET i == FreeInv IN
       /\ listeners' = Append(listeners, [inv |-> i, kind |-> kind, list |-> appKillList])
       /\ killChan' = Append(killChan,
            [ inv |-> i, defined |-> TRUE,
              names |-> [k \in DOMAIN appKillList |-> appKillList[k].id] ])
       /\ issuedBy' = [issuedBy EXCEPT ![i] = kind]

\* Variant: the relaunch-enabled checkbox is not consulted.
RelaunchSends_IgnoresFlag == Len(killedAppsList) > 0

\* relaunchKilledApps (931-943): does it call window.pomo.relaunchApps?
RelaunchSends == relaunchOptional /\ Len(killedAppsList) > 0

\* Is there room, within the bound, for the message a relaunch would send?
QueueHasRoom == RelaunchSends => Len(relaunchChan) < MaxRelaunchQueue

\* Variant: the handler waits until the relaunch calls sent before have settled.
RelaunchKilledApps_AfterSettle ==
  /\ relaunchChan = <<>>
  /\ relaunchChan' = IF RelaunchSends THEN Append(relaunchChan, killedAppsList)
                     ELSE relaunchChan
  /\ killedAppsList' = IF ~relaunchOptional \/ RelaunchSends THEN <<>>
                       ELSE killedAppsList

\* relaunchKilledApps (931-943)
RelaunchKilledApps ==
  /\ QueueHasRoom
  /\ relaunchChan' = IF RelaunchSends THEN Append(relaunchChan, killedAppsList)
                     ELSE relaunchChan
  /\ killedAppsList' = IF ~relaunchOptional \/ RelaunchSends THEN <<>>
                       ELSE killedAppsList

\* toggleTimer while running (885-887): stopTimer (946-958)
Pause ==
  /\ lastOp' = "pause"
  /\ isRunning
  /\ isRunning' = FALSE
  /\ timers' = StoppedTimers
  /\ timerInterval' = 0
  /\ trayMode' = "paused"
  /\ UNCHANGED << isFocus, timeLeft, appKillList, killedAppsList, configVars,
                  listeners, killChan, replyChan, relaunchChan, mainVars, issuedBy,
                  ticks, listing, loaded >>

\* Variant: a fresh session kills in either mode.
Start_AnyMode ==
  /\ lastOp' = "start"
  /\ ~isRunning
  /\ timeLeft = FullDuration
  /\ KillAppsAndReport("toggleTimer")
  /\ UNCHANGED << timerVars, appKillList, killedAppsList, configVars,
                  replyChan, relaunchChan, mainVars, listing, loaded >>

\* toggleTimer, fresh focus session (898-900): suspends in killAppsAndReport
Start ==
  /\ lastOp' = "start"
  /\ ~isRunning
  /\ FreshFocus
  /\ KillAppsAndReport("toggleTimer")
  /\ UNCHANGED << timerVars, appKillList, killedAppsList, configVars,
                  replyChan, relaunchChan, mainVars, listing, loaded >>

\* Variant: resuming does not signal the mode.
Resume_NoSignal ==
  /\ lastOp' = "resume"
  /\ ~isRunning
  /\ ~FreshFocus
  /\ isRunning' = TRUE
  /\ LET r == RestartInterval(timerInterval, timers) IN
       /\ timerInterval' = r.timerInterval
       /\ timers' = r.timers
  /\ UNCHANGED << isFocus, timeLeft, appKillList, killedAppsList, configVars,
                  listeners, killChan, replyChan, relaunchChan, mainVars, issuedBy,
                  ticks, listing, loaded, trayMode >>

\* toggleTimer, mid-session or break (903-912)
Resume ==
  /\ lastOp' = "resume"
  /\ ~isRunning
  /\ ~FreshFocus
  /\ isRunning' = TRUE
  /\ trayMode' = ModeName(isFocus)
  /\ LET r == RestartInterval(timerInterval, timers) IN
       /\ timerInterval' = r.timerInterval
       /\ timers' = r.timers
  /\ UNCHANGED << isFocus, timeLeft, appKillList, killedAppsList, configVars,
                  listeners, killChan, replyChan, relaunchChan, mainVars, issuedBy,
                  ticks, listing, loaded >>

\* toggleTimer (884-914)
ToggleTimer == Pause \/ Start \/ Resume

\* Variant: the session ends as soon as the decremented value is zero.
Expired_AtZero(t) == t <= 0

\* if (timeLeft < 0)   (963)
Expired(t) == t < 0

\* Variant: a run of updateTimer counts two seconds.
TickDown_ByTwo ==
  /\ lastOp' = "tick"
  /\ timers # {}
  /\ ~Expired(timeLeft - 1)
  /\ timeLeft' = IF timeLeft >= 2 THEN timeLeft - 2 ELSE 0
  /\ ticks' = [session |-> ticks.session + 1, atSwitch |-> 0]
  /\ UNCHANGED << timerInterval, timers, isRunning, isFocus, trayMode, appKillList,
                  killedAppsList, configVars, listeners, killChan, replyChan,
                  relaunchChan, mainVars, issuedBy, listing, loaded >>

\* updateTimer (960-968) when the decremented value is not below zero
TickDown ==
  /\ lastOp' = "tick"
  /\ timers # {}
  /\ ~Expired(timeLeft - 1)
  /\ timeLeft' = timeLeft - 1
  /\ ticks' = [session |-> ticks.session + 1, atSwitch |-> 0]
  /\ UNCHANGED << timerInterval, timers, isRunning, isFocus, trayMode, appKillList,
                  killedAppsList, configVars, listeners, killChan, replyChan,
                  relaunchChan, mainVars, issuedBy, listing, loaded >>

\* Variant: switchMode does not call startTimer when the break begins.
SwitchToBreak_Stops ==
  /\ lastOp' = "switchToBreak"
  /\ timers # {}
  /\ Expired(timeLeft - 1)
  /\ isFocus
  /\ isFocus' = FALSE
  /\ LET cfg == ReadConfig(FALSE, focusTimeInput, breakTimeInput) IN
       /\ timeLeft' = cfg.timeLeft
       /\ focusTimeInput' = cfg.focusTimeInput
       /\ breakTimeInput' = cfg.breakTimeInput
  /\ trayMode' = "break"
  /\ RelaunchKilledApps
  /\ isRunning' = FALSE
  /\ timerInterval' = 0
  /\ timers' = StoppedTimers
  /\ ticks' = [session |-> 0, atSwitch |-> ticks.session + 1]
  /\ UNCHANGED << appKillList, relaunchOptional, listeners, killChan, replyChan,
                  mainVars, issuedBy, listing, loaded >>

\* updateTimer -> switchMode (970-1000) -> startTimer (917-929), focus to break
SwitchToBreak ==
  /\ lastOp' = "switchToBreak"
  /\ timers # {}
  /\ Expired(timeLeft - 1)
  /\ isFocus
  /\ isFocus' = FALSE
  /\ LET cfg == ReadConfig(FALSE, focusTimeInput, breakTimeInput) IN
       /\ timeLeft' = cfg.timeLeft
       /\ focusTimeInput' = cfg.focusTimeInput
       /\ breakTimeInput' = cfg.breakTimeInput
  /\ trayMode' = "break"
  /\ RelaunchKilledApps
  /\ isRunning' = TRUE
  /\ LET r == RestartInterval(0, StoppedTimers) IN
       /\ timerInterval' = r.timerInterval
       /\ timers' = r.timers
  /\ ticks' = [session |-> 0, atSwitch |-> ticks.session + 1]
  /\ UNCHANGED << appKillList, relaunchOptional, listeners, killChan, replyChan,
                  mainVars, issuedBy, listing, loaded >>

\* updateTimer -> switchMode (970-1000) -> startTimer (917-929), break to focus:
\* startTimer suspends in killAppsAndReport after setting isRunning
SwitchToFocus ==
  /\ lastOp' = "switchToFocus"
  /\ timers # {}
  /\ Expired(timeLeft - 1)
  /\ ~isFocus
  /\ isFocus' = TRUE
  /\ LET cfg == ReadConfig(TRUE, focusTimeInput, breakTimeInput) IN
       /\ timeLeft' = cfg.timeLeft
       /\ focusTimeInput' = cfg.focusTimeInput
       /\ breakTimeInput' = cfg.breakTimeInput
  /\ trayMode' = "focus"
  /\ timers' = StoppedTimers
  /\ timerInterval' = 0
  /\ isRunning' = TRUE
  /\ KillAppsAndReport("startTimer")
  /\ ticks' = [session |-> 0, atSwitch |-> ticks.session + 1]
  /\ UNCHANGED << appKillList, killedAppsList, relaunchOptional, replyChan,
                  relaunchChan, mainVars, listing, loaded >>

\* updateTimer (960-968), fired by an active interval scheduler
UpdateTimer == TickDown \/ SwitchToBreak \/ SwitchToFocus

\* resetTimer (1002-1017) with the duration inputs reading fIn and bIn; op
\* names the listener that called it.
ResetWith(op, fIn, bIn) ==
  /\ lastOp' = op
  /\ isRunning' = FALSE
  /\ timers' = StoppedTimers
  /\ timerInterval' = 0
  /\ isFocus' = TRUE
  /\ LET cfg == ReadConfig(TRUE, fIn, bIn) IN
       /\ timeLeft' = cfg.timeLeft
       /\ focusTimeInput' = cfg.focusTimeInput
       /\ breakTimeInput' = cfg.breakTimeInput
  /\ trayMode' = "focus"
  /\ RelaunchKilledApps
  /\ ticks' = [session |-> 0, atSwitch |-> 0]
  /\ UNCHANGED << appKillList, relaunchOptional, listeners, killChan, replyChan,
                  mainVars, issuedBy, listing, loaded >>

\* the 'click' listener of resetBtn (565)
ResetTimer == ResetWith("resetTimer", focusTimeInput, breakTimeInput)

\* Variant: the new value is taken without resetTimer.
ChangeFocusTime_NoReset(v) ==
  /\ lastOp' = "changeFocusTime"
  /\ focusTimeInput' = v
  /\ UNCHANGED << timerInterval, timers, isRunning, isFocus, timeLeft, trayMode,
                  ticks, breakTimeInput, relaunchOptional, appKillList,
                  killedAppsList, listeners, killChan, replyChan, relaunchChan,
                  mainVars, issuedBy, listing, loaded >>

\* the 'change' listener of focusTimeInput (567), the input now reading v:
\* resetTimer, then saveSettings
ChangeFocusTime(v) == ResetWith("changeFocusTime", v, breakTimeInput)

\* Variant: the new value is taken without resetTimer.
ChangeBreakTime_NoReset(v) ==
  /\ lastOp' = "changeBreakTime"
  /\ breakTimeInput' = v
  /\ UNCHANGED << timerInterval, timers, isRunning, isFocus, timeLeft, trayMode,
                  ticks, focusTimeInput, relaunchOptional, appKillList,
                  killedAppsList, listeners, killChan, replyChan, relaunchChan,
                  mainVars, issuedBy, listing, loaded >>

\* the 'change' listener of breakTimeInput (568), the input now reading v
ChangeBreakTime(v) == ResetWith("changeBreakTime", focusTimeInput, v)

\* The listener of killAppsAndReport (854-862): the structured entries of the
\* kill list, as it stands now, whose id is in the reply.
ConfirmedKilledApps(killedAppIds) ==
  SelectSeqBy(appKillList,
              {k \in DOMAIN appKillList : appKillList[k].id \in Range(killedAppIds)})

\* Variant: startTimer stores the result but starts no scheduler.
Continuation_NoRestart(kind, r, result) ==
  LET t == RestartInterval(r.timerInterval, r.timers) IN
    IF kind = "toggleTimer"
      THEN [ killedAppsList |-> result, isRunning |-> TRUE,
             trayMode |-> ModeName(isFocus),
             timerInterval |-> t.timerInterval, timers |-> t.timers ]
      ELSE [ killedAppsList |-> result, isRunning |-> r.isRunning,
             trayMode |-> r.trayMode,
             timerInterval |-> r.timerInterval, timers |-> r.timers ]

\* What runs after `await killAppsAndReport()` in toggleTimer (900-912) and
\* in startTimer (924-928), on the renderer state r.
Continuation(kind, r, result) ==
  LET t == RestartInterval(r.timerInterval, r.timers) IN
    IF kind = "toggleTimer"
      THEN [ killedAppsList |-> result, isRunning |-> TRUE,
             trayMode |-> ModeName(isFocus),
             timerInterval |-> t.timerInterval, timers |-> t.timers ]
      ELSE [ killedAppsList |-> result, isRunning |-> r.isRunning,
             trayMode |-> r.trayMode,
             timerInterval |-> t.timerInterval, timers |-> t.timers ]

RECURSIVE RunContinuations(_, _, _)
\* The continuations of the resolved promises run in registration order.
RunContinuations(ls, r, result) ==
  IF ls = <<>> THEN r
  ELSE RunContinuations(Tail(ls), Continuation(Head(ls).kind, r, result), result)

\* The listeners a reply on 'apps:kill-reply' is dispatched to
\* (src/unnamed/part_000 15-20: every listener registered on the channel).
Notified(reply) == listeners

\* Is invocation i finished once reply number 1 of the channel is consumed?
Finished(i) ==
  /\ jobs[i].active
  /\ jobs[i].unsettled = {}
  /\ \A k \in 2..Len(replyChan) : replyChan[k].inv # i

\* One 'apps:kill-reply' message reaches the renderer: every notified listener
\* resolves its promise and removes itself, then the continuations run.
DeliverReply ==
  /\ lastOp' = "reply"
  /\ replyChan # <<>>
  /\ LET reply == Head(replyChan)
         told == Notified(reply)
         r == RunContinuations(told,
                [ killedAppsList |-> killedAppsList, isRunning |-> isRunning,
                  trayMode |-> trayMode, timerInterval |-> timerInterval,
                  timers |-> timers ],
                ConfirmedKilledApps(reply.ids))
     IN /\ replyChan' = Tail(replyChan)
        /\ listeners' = SelectSeqBy(listeners,
                           {k \in DOMAIN listeners : listeners[k] \notin Range(told)})
        /\ killedAppsList' = r.killedAppsList
        /\ isRunning' = r.isRunning
        /\ trayMode' = r.trayMode
        /\ timerInterval' = r.timerInterval
        /\ timers' = r.timers
        /\ IF Finished(reply.inv)
             THEN /\ issuedBy' = [issuedBy EXCEPT ![reply.inv] = "none"]
                  /\ jobs' = [jobs EXCEPT ![reply.inv] = NoJob]
             ELSE UNCHANGED << issuedBy, jobs >>
  /\ UNCHANGED << isFocus, timeLeft, appKillList, configVars, killChan,
                  relaunchChan, platform, launches, ticks, listing, loaded >>

\* The kill list handleAppSelection (650-673) leaves when the entry picked
\* is app: toggle by composite key (658-667), then sort (670).
Toggle(list, app) ==
  LET hits == {k \in DOMAIN list : UniqueKey(list[k]) = UniqueKey(app)}
      existingIndex == IF hits = {} THEN 0
                       ELSE CHOOSE k \in hits : \A h \in hits : k <= h
      edited == IF existingIndex = 0 THEN Append(list, app)
                ELSE RemoveAt(list, existingIndex)
  IN SortByDisplay(edited)

\* handleAppSelection (650-673)
HandleAppSelection(app) ==
  /\ appKillList' = Toggle(appKillList, app)
  /\ UNCHANGED << timerVars, killedAppsList, configVars, listeners, killChan,
                  replyChan, relaunchChan, mainVars, issuedBy, lastOp, listing, loaded >>

\* handleRemoveFromKillList (631-648)
HandleRemoveFromKillList(index) ==
  /\ index \in DOMAIN appKillList
  /\ appKillList' = RemoveAt(appKillList, index)
  /\ UNCHANGED << timerVars, killedAppsList, configVars, listeners, killChan,
                  replyChan, relaunchChan, mainVars, issuedBy, lastOp, listing, loaded >>

\* the 'change' listener of relaunchOptionalCheckbox (569)
ChangeRelaunchOptional ==
  /\ relaunchOptional' = ~relaunchOptional
  /\ UNCHANGED << timerVars, appKillList, killedAppsList, focusTimeInput,
                  breakTimeInput, listeners, killChan, replyChan, relaunchChan,
                  mainVars, issuedBy, lastOp, listing, loaded >>

\* =========================================================================
\* Specifications
\* =========================================================================

\* Kill lists a settings file written by the program can hold.
SavedKillLists == { <<>>, <<Slack>> }

\* The state once initializeSettings (827-847) has run, on a platform of plats
\* and with a settings file holding a kill list of saved; ids are the
\* invocations of the Terminator that can be in flight together.
InitSlots(ids, plats, saved, focusTimes, breakTimes) ==
  /\ timerInterval = 0
  /\ timers = {}
  /\ isRunning = FALSE
  /\ isFocus = TRUE
  /\ focusTimeInput \in {Num(k) : k \in focusTimes}
  /\ breakTimeInput \in {Num(k) : k \in breakTimes}
  /\ timeLeft = ReadConfig(TRUE, focusTimeInput, breakTimeInput).timeLeft
  /\ appKillList \in saved
  /\ killedAppsList = <<>>
  /\ relaunchOptional \in BOOLEAN
  /\ trayMode = "focus"
  /\ listeners = <<>>
  /\ killChan = <<>>
  /\ replyChan = <<>>
  /\ relaunchChan = <<>>
  /\ platform \in plats
  /\ jobs = [i \in ids |-> NoJob]
  /\ launches = <<>>
  /\ issuedBy = [i \in ids |-> "none"]
  /\ lastOp = "initializeSettings"
  /\ ticks = [session |-> 0, atSwitch |-> 0]
  /\ listing = NoListing
  /\ loaded = "parsed"

InitWith(plats, saved, focusTimes, breakTimes) ==
  InitSlots(InvIds, plats, saved, focusTimes, breakTimes)

InitOn(plats) == InitWith(plats, SavedKillLists, FocusTimeChoices, BreakTimeChoices)

Init == InitOn(SessionPlatforms)

Next ==
  \/ Pause
  \/ Start
  \/ Resume
  \/ TickDown
  \/ SwitchToBreak
  \/ SwitchToFocus
  \/ ResetTimer
  \/ DeliverReply
  \/ \E app \in Apps : HandleAppSelection(app)
  \/ \E index \in 1..Cardinality(Apps) : HandleRemoveFromKillList(index)
  \/ ChangeRelaunchOptional
  \/ MainKill
  \/ \E i \in InvIds, k \in 1..Cardinality(Apps), outcome \in Outcomes :
       ExecCallback(i, k, outcome)
  \/ MainRelaunch

Spec == Init /\ [][Next]_vars

\* ------------------------------------------------------------------------
\* The Terminator driven directly: any caller of window.pomo.killApps.

\* window.pomo.killApps(appIds) (src/unnamed/part_000 12)
KillApps(defined, names) ==
  /\ Live # DOMAIN issuedBy
  /\ LET i == FreeInv IN
       /\ killChan' = Append(killChan, [inv |-> i, defined |-> defined, names |-> names])
       /\ issuedBy' = [issuedBy EXCEPT ![i] = "caller"]
  /\ UNCHANGED << rendererVars, replyChan, relaunchChan, mainVars, lastOp, listing, loaded >>

InitKill ==
  /\ InitOn(Platforms)
  /\ appKillList = <<>>
  /\ relaunchOptional = TRUE

NextKill ==
  \/ \E names \in KillInputs : KillApps(TRUE, names)
  \/ KillApps(FALSE, <<>>)
  \/ MainKill
  \/ \E i \in InvIds, k \in 1..3, outcome \in Outcomes : ExecCallback(i, k, outcome)
  \/ DeliverReply

SpecKill == InitKill /\ [][NextKill]_vars

\* ------------------------------------------------------------------------
\* The end-to-end session of the default settings: 25 minutes of focus, 5 of
\* break, relaunch enabled, Slack in the kill list and running, so that its
\* termination succeeds; the user starts, pauses and resumes.

InitDefaults ==
  /\ InitWith(SessionPlatforms, {<<Slack>>}, {DefaultFocusTime}, {DefaultBreakTime})
  /\ relaunchOptional = TRUE

NextDefaults ==
  \/ Pause
  \/ Start
  \/ Resume
  \/ TickDown
  \/ SwitchToBreak
  \/ SwitchToFocus
  \/ DeliverReply
  \/ MainKill
  \/ \E i \in InvIds : ExecCallback(i, 1, "killed")
  \/ MainRelaunch

SpecDefaults == InitDefaults /\ [][NextDefaults]_vars

\* ------------------------------------------------------------------------
\* The session left to itself: the user starts it and does nothing more.
\* Every message is handled, every exec call settles, every reply is
\* delivered, and an active interval scheduler keeps firing.

NextUnattended ==
  \/ Start
  \/ TickDown
  \/ SwitchToBreak
  \/ SwitchToFocus
  \/ DeliverReply
  \/ MainKill
  \/ \E i \in InvIds, outcome \in Outcomes : ExecCallback(i, 1, outcome)
  \/ MainRelaunch

SpecUnattended ==
  /\ Init
  /\ [][NextUnattended]_vars
  /\ WF_vars(MainKill)
  /\ WF_vars(\E i \in InvIds, outcome \in Outcomes : ExecCallback(i, 1, outcome))
  /\ WF_vars(DeliverReply)
  /\ WF_vars(UpdateTimer)
  /\ WF_vars(MainRelaunch)

\* ------------------------------------------------------------------------
\* Start-up: the module is loaded, the button listeners are registered
\* (562-565) and initializeSettings (1030) is suspended at
\* `await window.pomo.loadSettings()` (828) until the main process has
\* answered 'settings:load' (src/main.js 382-399).

\* `let timeLeft;` (555): the value before readConfig first assigns a number
\* of seconds.  Numbers of seconds are never negative when a handler ends.
Undefined == -1

\* A text handed to JSON.parse: the empty string, a text that is not JSON, or
\* the JSON text of a value.
EmptyText == [empty |-> TRUE, valid |-> FALSE, value |-> <<>>]
BrokenText == [empty |-> FALSE, valid |-> FALSE, value |-> <<>>]
JsonStringify(list) == [empty |-> FALSE, valid |-> TRUE, value |-> list]

\* src/main.js 393-398
DefaultSettings ==
  [ focusTime |-> DefaultFocusTime, breakTime |-> DefaultBreakTime,
    appKillList |-> EmptyText, relaunchOptional |-> TRUE ]

\* What getSettingsFromDOM (813-820) hands to 'settings:save', which writes
\* its JSON text (src/main.js 406); a hand-edited file may hold a broken or
\* empty appKillList.
SettingsValues ==
  [ focusTime : FocusTimeChoices, breakTime : BreakTimeChoices,
    appKillList : {JsonStringify(l) : l \in SavedKillLists} \cup {EmptyText, BrokenText},
    relaunchOptional : BOOLEAN ]

\* The settings file as 'settings:load' finds it: does it exist, can it be
\* read, is its text JSON, and the value its text was written from.
SettingsFiles ==
  [ exists : BOOLEAN, readable : BOOLEAN, valid : BOOLEAN, value : SettingsValues ]

\* Variant: errors of readFileSync and JSON.parse reject the call.
LoadSettings_NoCatch(file) ==
  IF ~file.exists
    THEN [rejected |-> FALSE, outcome |-> "missing", settings |-> DefaultSettings]
  ELSE IF file.readable /\ file.valid
    THEN [rejected |-> FALSE, outcome |-> "parsed", settings |-> file.value]
  ELSE [rejected |-> TRUE, outcome |-> "rejected", settings |-> file.value]

\* ipcMain.handle('settings:load') (src/main.js 382-399): existsSync,
\* readFileSync and JSON.parse inside try; the catch logs and falls through to
\* the defaults.
LoadSettings(file) ==
  IF ~file.exists
    THEN [rejected |-> FALSE, outcome |-> "missing", settings |-> DefaultSettings]
  ELSE IF file.readable /\ file.valid
    THEN [rejected |-> FALSE, outcome |-> "parsed", settings |-> file.value]
  ELSE [rejected |-> FALSE, outcome |-> "caught", settings |-> DefaultSettings]

\* src/renderer.js 834-839: JSON.parse(settings.appKillList || '[]') in try,
\* [] in catch.
ParseKillList(text) ==
  IF text.empty THEN <<>>
  ELSE IF text.valid THEN text.value
  ELSE <<>>

\* initializeSettings (827-847) from the point where loadSettings has
\* resolved.  saveKillListAndRender (841) writes the settings back to the
\* file, which the program does not read again.
InitializeSettings(file) ==
  /\ loaded = "pending"
  /\ LET r == LoadSettings(file) IN
       IF r.rejected
         THEN /\ loaded' = r.outcome
              /\ UNCHANGED << rendererVars, lastOp >>
         ELSE LET cfg == ReadConfig(isFocus, Num(r.settings.focusTime),
                                    Num(r.settings.breakTime))
              IN /\ loaded' = r.outcome
                 /\ lastOp' = "initializeSettings"
                 /\ focusTimeInput' = cfg.focusTimeInput
                 /\ breakTimeInput' = cfg.breakTimeInput
                 /\ relaunchOptional' = r.settings.relaunchOptional
                 /\ appKillList' = ParseKillList(r.settings.appKillList)
                 /\ timeLeft' = cfg.timeLeft
                 /\ trayMode' = "focus"
                 /\ UNCHANGED << timerInterval, timers, isRunning, isFocus,
                                 killedAppsList, listeners, ticks >>
  /\ UNCHANGED << killChan, replyChan, relaunchChan, mainVars, issuedBy, listing >>

\* The values of the two duration inputs before initializeSettings sets them.
MarkupDurations == {NaN} \cup {Num(k) : k \in FocusTimeChoices \cup BreakTimeChoices}

\* The state once the module is loaded and initializeSettings is suspended.
InitBoot ==
  /\ timerInterval = 0
  /\ timers = {}
  /\ isRunning = FALSE
  /\ isFocus = TRUE
  /\ timeLeft = Undefined
  /\ appKillList = <<>>
  /\ killedAppsList = <<>>
  /\ relaunchOptional \in BOOLEAN
  /\ focusTimeInput \in MarkupDurations
  /\ breakTimeInput \in MarkupDurations
  /\ trayMode = "none"
  /\ listeners = <<>>
  /\ killChan = <<>>
  /\ replyChan = <<>>
  /\ relaunchChan = <<>>
  /\ platform \in SessionPlatforms
  /\ jobs = [i \in InvIds |-> NoJob]
  /\ launches = <<>>
  /\ issuedBy = [i \in InvIds |-> "none"]
  /\ lastOp = "load"
  /\ ticks = [session |-> 0, atSwitch |-> 0]
  /\ listing = NoListing
  /\ loaded = "pending"

\* The user presses the buttons before and after the settings arrive; the
\* settings arrive within the first second of a session, so no tick runs.
NextBoot ==
  \/ \E file \in SettingsFiles : InitializeSettings(file)
  \/ Pause
  \/ Start
  \/ Resume
  \/ ResetTimer
  \/ MainKill
  \/ \E i \in InvIds, k \in 1..1, outcome \in Outcomes : ExecCallback(i, k, outcome)
  \/ DeliverReply
  \/ MainRelaunch

SpecBoot == InitBoot /\ [][NextBoot]_vars

\* ------------------------------------------------------------------------
\* Invocations of the Terminator on every platform while the user presses
\* Start, Pause and Reset: no second elapses, every message on 'apps:kill' is
\* handled and every exec call issued calls back.

NextTerminate ==
  \/ Start
  \/ Pause
  \/ ResetTimer
  \/ MainKill
  \/ \E i \in InvIds, outcome \in Outcomes : ExecCallback(i, 1, outcome)
  \/ DeliverReply
  \/ MainRelaunch

SpecTerminate ==
  /\ InitOn(Platforms)
  /\ [][NextTerminate]_vars
  /\ WF_vars(MainKill)
  /\ \A i \in InvIds : WF_vars(\E outcome \in Outcomes : ExecCallback(i, 1, outcome))
  /\ WF_vars(DeliverReply)

\* ------------------------------------------------------------------------
\* Overlapping invocations: the button is pressed again while the Terminator
\* call of the first press is in flight, so that one invocation more than in
\* the session above can be in flight.  No second elapses.

OverlapIds == 1..(MaxInFlight + 1)

InitOverlap ==
  InitSlots(OverlapIds, SessionPlatforms, {<<Slack>>}, FocusTimeChoices, BreakTimeChoices)

NextOverlap ==
  \/ Start
  \/ Pause
  \/ ResetTimer
  \/ MainKill
  \/ \E i \in OverlapIds, outcome \in Outcomes : ExecCallback(i, 1, outcome)
  \/ DeliverReply
  \/ MainRelaunch

SpecOverlap == InitOverlap /\ [][NextOverlap]_vars

\* ------------------------------------------------------------------------
\* The session while the user edits the two durations, with an empty kill
\* list: every entry parseInt can read, among them the ones readConfig
\* replaces by the defaults.

\* What parseInt reads in a duration input the user has edited.
DurationInputs == {NaN, Num(0), Num(1), Num(2)}

InitDurations ==
  /\ InitWith(SessionPlatforms, {<<>>}, FocusTimeChoices, BreakTimeChoices)
  /\ relaunchOptional = TRUE

NextDurations ==
  \/ \E v \in DurationInputs : ChangeFocusTime(v)
  \/ \E v \in DurationInputs : ChangeBreakTime(v)
  \/ Pause
  \/ Start
  \/ Resume
  \/ TickDown
  \/ SwitchToBreak
  \/ SwitchToFocus
  \/ DeliverReply
  \/ MainKill

SpecDurations == InitDurations /\ [][NextDurations]_vars

\* The same with Slack in the kill list and running, so that killedAppsList
\* fills and is handed to the Relauncher; the user enters durations of one
\* and two minutes.
ValidDurations == {Num(1), Num(2)}

InitEdits ==
  /\ InitWith(SessionPlatforms, {<<Slack>>}, FocusTimeChoices, BreakTimeChoices)
  /\ relaunchOptional = TRUE

NextEdits ==
  \/ \E v \in ValidDurations : ChangeFocusTime(v)
  \/ \E v \in ValidDurations : ChangeBreakTime(v)
  \/ Pause
  \/ Start
  \/ Resume
  \/ TickDown
  \/ SwitchToBreak
  \/ SwitchToFocus
  \/ DeliverReply
  \/ MainKill
  \/ \E i \in InvIds : ExecCallback(i, 1, "killed")
  \/ MainRelaunch

SpecEdits == InitEdits /\ [][NextEdits]_vars

\* ------------------------------------------------------------------------
\* The Kill List Manager on its own: a kill list loaded from the settings
\* file, then edited from the picker and by the remove buttons.

\* What JSON.parse(settings.appKillList) (835) yields: nothing saved yet, or
\* a file that was edited by hand; the array is taken as it is found.
PersistedKillLists == { <<>>, <<Zoom, Slack>>, <<Slack, Slack>> }

InitList ==
  InitWith(SessionPlatforms, PersistedKillLists, FocusTimeChoices, BreakTimeChoices)

NextList ==
  \/ \E app \in PickerApps : HandleAppSelection(app)
  \/ \E index \in 1..(Cardinality(PickerApps) + 1) : HandleRemoveFromKillList(index)

SpecList == InitList /\ [][NextList]_vars

\* The picker offers, besides the applications above, processes with a "|"
\* in their name or command line; nothing has been saved yet.
InitKeys ==
  InitWith(SessionPlatforms, {<<>>}, FocusTimeChoices, BreakTimeChoices)

NextKeys ==
  \/ \E app \in PickerApps \cup SeparatorApps : HandleAppSelection(app)
  \/ \E index \in 1..Cardinality(PickerApps \cup SeparatorApps) :
       HandleRemoveFromKillList(index)

SpecKeys == InitKeys /\ [][NextKeys]_vars

\* ------------------------------------------------------------------------
\* The Inventory Collector driven directly: any caller of window.pomo.listApps.

InitInventory ==
  /\ InitOn(Platforms)
  /\ appKillList = <<>>
  /\ relaunchOptional = TRUE

NextInventory ==
  \E failed \in BOOLEAN, out \in Stdouts(platform) : ListApps(failed, out)

SpecInventory == InitInventory /\ [][NextInventory]_vars

\* =========================================================================
\* Properties
\* =========================================================================

RECURSIVE IsSubsequence(_, _)
\* s can be obtained from t by deleting elements.
IsSubsequence(s, t) ==
  IF s = <<>> THEN TRUE
  ELSE IF t = <<>> THEN FALSE
  ELSE IF Head(s) = Head(t) THEN IsSubsequence(Tail(s), Tail(t))
  ELSE IsSubsequence(s, Tail(t))

\* s is sorted ascending by display.
IsSortedByDisplay(s) ==
  \A k \in 1..(Len(s) - 1) : LocaleCompare(s[k].display, s[k + 1].display) <= 0

\* No two entries of s have the same (id, detail).
NoDuplicateKeys(s) ==
  \A k, m \in DOMAIN s : k # m => << s[k].id, s[k].detail >> # << s[m].id, s[m].detail >>

\* The listing command printed something the platform's parser cannot read
\* as a process table: no field in any tasklist line, or not the two lists
\* System Events prints.
Unparsable(plat, out) ==
  CASE plat = "win32" -> out # <<>> /\ \A k \in DOMAIN out : ~HasField(out[k])
    [] plat = "darwin" -> out.parts # 2
    [] OTHER -> FALSE

\* The ids of the kill list, as killAppsAndReport sends them.
KillListIds == [k \in DOMAIN appKillList |-> appKillList[k].id]

\* The input names of a job rearranged into the order its calls settled.
SettleOrderNames(j) == [n \in DOMAIN j.settled |-> j.names[j.settled[n].k]]

\* The full focus duration the inputs configure, in seconds.
FullFocusDuration == focusTimeInput.n * SecondsPerMinute

\* C1: while the Terminator join of a fresh Focus session is still awaited
\* (by toggleTimer after Start, or by startTimer after a Switch to Focus),
\* running is not yet true.
C1_RunningOnlyAfterJoin == listeners # <<>> => ~isRunning

\* C2: a Start of a fresh Focus session sends exactly one kill request, with
\* the ids of the current kill list, and no tick happens while an invocation
\* issued by such a Start is still in flight.
C2_StartKillsOnceBeforeTick ==
  [][ /\ (~isRunning /\ isFocus /\ timeLeft = FullFocusDuration /\ ToggleTimer)
         => /\ Len(killChan') = Len(killChan) + 1
            /\ killChan'[Len(killChan')].names = KillListIds
      /\ UpdateTimer => \A i \in InvIds : issuedBy[i] # "toggleTimer" ]_vars

\* C3: pressing Start while paused with remaining strictly below the full
\* duration of the mode sends no kill request, registers no reply listener,
\* and sets running and starts the tick scheduler in that same step.
C3_ResumeNoKill ==
  [][ (~isRunning /\ timeLeft < FullDuration /\ ToggleTimer)
        => /\ killChan' = killChan
           /\ listeners' = listeners
           /\ issuedBy' = issuedBy
           /\ isRunning'
           /\ timerInterval' \in timers' ]_vars

C3_Witness ==
  /\ lastOp = "resume"
  /\ isFocus /\ isRunning /\ timeLeft < FullDuration /\ timerInterval \in timers

\* C4: for a non-empty input, the handler run replies at most once, it has
\* replied exactly when none of its calls is unsettled, and every id of the
\* reply is an input id.
C4_ReplyOnceAfterJoin ==
  \A i \in InvIds :
    (jobs[i].active /\ jobs[i].names # <<>>) =>
      /\ jobs[i].replied <= 1
      /\ jobs[i].replied = 1 <=> jobs[i].unsettled = {}
      /\ Cardinality({k \in DOMAIN replyChan : replyChan[k].inv = i}) <= 1
      /\ \A k \in DOMAIN replyChan :
           replyChan[k].inv = i =>
             /\ jobs[i].unsettled = {}
             /\ Range(replyChan[k].ids) \subseteq Range(jobs[i].names)

C4_Witness ==
  \E i \in InvIds :
    /\ jobs[i].active /\ Len(jobs[i].names) = 3 /\ jobs[i].execs = 3
    /\ jobs[i].replied = 1 /\ Len(jobs[i].settled) = 3 /\ jobs[i].settled[1].k = 3
    /\ \E k \in DOMAIN replyChan : replyChan[k].inv = i

\* C5: a handler run for an empty or missing id list has, as soon as it has
\* run, sent its one reply, the empty list, and issued no exec call.
C5_EmptyRepliesAtOnce ==
  \A i \in InvIds :
    (jobs[i].active /\ jobs[i].names = <<>>) =>
      /\ jobs[i].execs = 0
      /\ jobs[i].replied = 1
      /\ \E k \in DOMAIN replyChan : replyChan[k] = [inv |-> i, ids |-> <<>>]

C5_Witness ==
  /\ KillSupported(platform)
  /\ \E i \in InvIds : jobs[i].active /\ jobs[i].names = <<>> /\ jobs[i].replied = 1
  /\ replyChan # <<>>

\* C6: on a supported platform an input id is in the reply if and only if a
\* call for it settled without the operating system reporting "not found".
C6_ConfirmedIffFound ==
  \A k \in DOMAIN replyChan :
    LET j == jobs[replyChan[k].inv] IN
      (KillSupported(platform) /\ j.active) =>
        \A id \in Range(j.names) :
          id \in Range(replyChan[k].ids) <=>
            \E n \in DOMAIN j.settled :
              j.names[j.settled[n].k] = id /\ j.settled[n].outcome # "notfound"

\* C7 (as claimed): the reply is a subsequence of the input id list.
C7_ReplyIsSubsequence ==
  \A k \in DOMAIN replyChan :
    jobs[replyChan[k].inv].active =>
      IsSubsequence(replyChan[k].ids, jobs[replyChan[k].inv].names)

\* C7 (amended): the reply lists the confirmed ids in the order in which
\* their calls settled: it is a subsequence of the input rearranged into
\* settle order.
C7_ReplyInSettleOrder ==
  \A k \in DOMAIN replyChan :
    jobs[replyChan[k].inv].active =>
      IsSubsequence(replyChan[k].ids, SettleOrderNames(jobs[replyChan[k].inv]))

C7_Witness ==
  \E k \in DOMAIN replyChan :
    /\ replyChan[k].ids = <<"zoom", "slack">>
    /\ jobs[replyChan[k].inv].names = <<"slack", "zoom">>

\* C8: in the step that flips the mode from Focus to Break, a relaunch
\* message carrying the whole killedAppsList is sent if and only if the
\* checkbox is set and the list is non-empty, and the list is empty after.
C8_SwitchRelaunch ==
  [][ (isFocus /\ ~isFocus')
        => /\ killedAppsList' = <<>>
           /\ IF relaunchOptional /\ killedAppsList # <<>>
                THEN relaunchChan' = Append(relaunchChan, killedAppsList)
                ELSE relaunchChan' = relaunchChan ]_vars

C8_Witness ==
  /\ lastOp = "switchToBreak" /\ ~isFocus
  /\ relaunchOptional /\ relaunchChan = << <<Slack>> >> /\ killedAppsList = <<>>

\* C9: after Reset the state is Focus, not running, at the full configured
\* focus duration, with no tick scheduler and an empty killedAppsList.
C9_ResetState ==
  lastOp = "resetTimer" =>
    /\ isFocus /\ ~isRunning
    /\ ~focusTimeInput.nan /\ timeLeft = FullFocusDuration
    /\ timers = {} /\ timerInterval = 0
    /\ killedAppsList = <<>>

C9_Witness == lastOp = "resetTimer" /\ listeners # <<>> /\ killChan = <<>>

\* C10: with the checkbox set, a Reset hands to the Relauncher every app that
\* has been confirmed as terminated and not yet relaunched: the entries of
\* killedAppsList and the ids already confirmed by an invocation in flight.
C10_ResetRelaunchesAll ==
  [][ (ResetTimer /\ relaunchOptional) =>
        LET handed == IF relaunchChan' # relaunchChan
                        THEN {a.id : a \in Range(relaunchChan'[Len(relaunchChan')])}
                        ELSE {}
        IN /\ {a.id : a \in Range(killedAppsList)} \subseteq handed
           /\ \A i \in InvIds : Range(jobs[i].killedList) \subseteq handed ]_vars

\* C11: at most one tick scheduler is active.
C11_OneTickScheduler == Cardinality(timers) <= 1

C11_Witness ==
  /\ lastOp = "resume" /\ isRunning
  /\ Cardinality(timers) = 1 /\ timerInterval \in timers

\* C12: a press of the button while running (Pause) leaves no tick scheduler
\* and running false, sends nothing to the Terminator or the Relauncher, and
\* leaves mode, timeLeft and killedAppsList as they were.
C12_PauseFrame ==
  [][ (isRunning /\ ToggleTimer)
        => /\ ~isRunning' /\ timers' = {} /\ timerInterval' = 0
           /\ killChan' = killChan /\ listeners' = listeners
           /\ relaunchChan' = relaunchChan
           /\ isFocus' = isFocus /\ timeLeft' = timeLeft
           /\ killedAppsList' = killedAppsList ]_vars

C12_Witness ==
  /\ lastOp = "pause" /\ ~isRunning /\ timers = {}
  /\ isFocus /\ timeLeft < FullDuration /\ killedAppsList # <<>>

\* C13 (as claimed): with the default settings, the run of updateTimer that
\* switches from Focus to Break is the 1500th of the Focus session, the one
\* that brings timeLeft to 0, and timeLeft is 300 afterwards.
C13_SwitchOnTick1500 ==
  lastOp = "switchToBreak" =>
    /\ ticks.atSwitch = DefaultFocusTime * SecondsPerMinute
    /\ timeLeft = DefaultBreakTime * SecondsPerMinute

\* C13 (amended): in Focus, timeLeft is 1500 less the runs of updateTimer so
\* far and never below 0; the run that switches to Break is the 1501st, the
\* one after timeLeft has reached 0, and timeLeft is 300 afterwards.
C13_SwitchOnTick1501 ==
  /\ isFocus =>
       /\ timeLeft >= 0
       /\ timeLeft + ticks.session = DefaultFocusTime * SecondsPerMinute
  /\ lastOp = "switchToBreak" =>
       /\ ticks.atSwitch = DefaultFocusTime * SecondsPerMinute + 1
       /\ timeLeft = DefaultBreakTime * SecondsPerMinute

C13_Witness ==
  /\ lastOp = "switchToBreak" /\ ~isFocus /\ isRunning
  /\ ticks.atSwitch = DefaultFocusTime * SecondsPerMinute + 1
  /\ timeLeft = DefaultBreakTime * SecondsPerMinute

\* C14: the run of updateTimer that flips the mode leaves the machine
\* running in the new mode at that mode's full duration, with a scheduler
\* already active when the new mode is Break; while it is running without
\* a scheduler it stays in Focus at the full duration with the join awaited;
\* and from there a scheduler is eventually active again.
C14_SwitchContinues ==
  /\ [][ (UpdateTimer /\ isFocus' # isFocus)
          => /\ isRunning'
             /\ timeLeft' = FullDuration'
             /\ ~isFocus' => (timerInterval' \in timers') ]_vars
  /\ []( (isRunning /\ timers = {})
          => (isFocus /\ timeLeft = FullDuration /\ listeners # <<>>) )
  /\ (isRunning /\ isFocus /\ timers = {}) ~> (isRunning /\ isFocus /\ timers # {})

C14_Witness ==
  /\ lastOp = "reply" /\ ticks.atSwitch > 0
  /\ isFocus /\ isRunning /\ timerInterval \in timers /\ timeLeft = FullDuration

\* C15: for a kill list that is sorted by display and free of duplicate
\* keys, toggling any descriptor of the picker twice gives back the same
\* list, entry for entry.
C15_ToggleTwiceRestores ==
  (IsSortedByDisplay(appKillList) /\ NoDuplicateKeys(appKillList)) =>
    \A app \in PickerApps : Toggle(Toggle(appKillList, app), app) = appKillList

\* C16: the kill list, as loaded from the settings and after every toggle
\* and removal, is sorted ascending by display and holds no two entries with
\* the same (id, detail).
C16_ListSortedNoDuplicates ==
  IsSortedByDisplay(appKillList) /\ NoDuplicateKeys(appKillList)

\* C17: when a reply resolves the join awaited by toggleTimer or startTimer,
\* the reply is that of the awaited invocation, and killedAppsList becomes
\* the entries of the kill list, as it stood when the invocation was issued,
\* whose id that invocation confirmed.
C17_KilledSetOfOwnInvocation ==
  [][ (DeliverReply /\ listeners # <<>>) =>
        LET l == listeners[Len(listeners)]
            confirmed == Range(jobs[l.inv].killedList)
        IN /\ Head(replyChan).inv = l.inv
           /\ jobs[l.inv].unsettled = {}
           /\ killedAppsList' =
                SelectSeqBy(l.list, {k \in DOMAIN l.list : l.list[k].id \in confirmed}) ]_vars

\* C18: on a supported platform, a listing that succeeded holds no two
\* descriptors with the same (id, detail) and is sorted ascending by display.
C18_ListingDedupedSorted ==
  (listing.called /\ KillSupported(platform) /\ ~listing.failed) =>
    /\ NoDuplicateKeys(listing.result)
    /\ IsSortedByDisplay(listing.result)

\* C19: on a supported platform, when the listing command fails or prints
\* something unparsable, the call resolves to exactly one descriptor, with
\* id "Error".
C19_ErrorSentinel ==
  ( /\ listing.called /\ KillSupported(platform)
    /\ (listing.failed \/ Unparsable(platform, listing.stdout)) ) =>
    /\ Len(listing.result) = 1
    /\ listing.result[1].id = "Error"





C21_OneLaunchPerDescriptor ==
  [][ MainRelaunch =>
        Len(launches') = Len(launches) + Len(Head(relaunchChan)) ]_vars

\* C22: whenever the timer is not running (after Pause, after Reset, after
\* initialization), the last presentation-mode signal is Paused.
C22_PausedSignalWhenStopped == ~isRunning => trayMode = "paused"

\* C23: no message is sent to the Terminator while the mode is Break, and a
\* press of the button in Break while not running (Start of a fresh break or
\* Resume) starts the tick scheduler in the same step with no kill.
C23_NoKillInBreak ==
  [][ /\ Len(killChan') > Len(killChan) => isFocus'
      /\ (~isFocus /\ ~isRunning /\ ToggleTimer)
           => /\ isRunning' /\ Cardinality(timers') = 1 /\ timerInterval' \in timers'
              /\ killChan' = killChan /\ listeners' = listeners ]_vars

C23_Witness ==
  /\ lastOp = "resume" /\ ~isFocus /\ isRunning
  /\ timeLeft = FullDuration /\ Cardinality(timers) = 1 /\ killChan = <<>>

\* C24: the state is created with mode Focus, not running, timeLeft the
\* configured focus duration and an empty killedAppsList, and no press of the
\* Start button is processed while timeLeft has not been set.
C24_NoPressBeforeTimeLeftSet ==
  [][ ToggleTimer => timeLeft # Undefined ]_vars

\* C25: loading the settings never throws, and when the file is missing,
\* cannot be read or is not JSON, the settings in force are exactly the
\* defaults: focus 25, break 5, an empty kill list, relaunch enabled.
C25_LoadFailureYieldsDefaults ==
  /\ loaded # "rejected"
  /\ (loaded \in {"missing", "caught"} /\ lastOp = "initializeSettings")
       => /\ focusTimeInput = Num(25) /\ breakTimeInput = Num(5)
          /\ appKillList = <<>> /\ relaunchOptional

C25_Witness ==
  /\ loaded = "caught" /\ lastOp = "initializeSettings"
  /\ focusTimeInput = Num(25) /\ appKillList = <<>> /\ relaunchOptional

\* C26: a run of updateTimer takes one from timeLeft; it switches the mode
\* exactly when the decremented value is below zero, and otherwise changes
\* nothing of the renderer and sends nothing: only timeLeft differs.
C26_TickDecrementsOrSwitches ==
  [][ UpdateTimer =>
        IF timeLeft - 1 < 0
          THEN /\ isFocus' # isFocus
               /\ timeLeft' = ReadConfig(isFocus', focusTimeInput, breakTimeInput).timeLeft
               /\ lastOp' \in {"switchToBreak", "switchToFocus"}
          ELSE /\ timeLeft' = timeLeft - 1
               /\ lastOp' = "tick"
               /\ UNCHANGED << timerInterval, timers, isRunning, isFocus,
                               appKillList, killedAppsList, configVars, trayMode,
                               listeners, killChan, replyChan, relaunchChan >> ]_vars

C26_Witness ==
  /\ lastOp = "tick" /\ timeLeft = 0 /\ isRunning /\ ~isFocus
  /\ ticks.session = DefaultBreakTime * SecondsPerMinute

\* C27: whenever the timer is running the last presentation-mode signal is
\* the current mode, and a step that changes isRunning or the mode ends with
\* a signal that was sent after the change: the mode if running, the mode or
\* Paused if not.
C27_SignalFollowsState ==
  [][ /\ isRunning' => trayMode' = ModeName(isFocus')
      /\ (isRunning' # isRunning \/ isFocus' # isFocus)
           => trayMode' \in {ModeName(isFocus')} \cup (IF isRunning' THEN {} ELSE {"paused"})
    ]_vars

C27_Witness ==
  /\ lastOp = "switchToFocus" /\ isRunning /\ isFocus
  /\ trayMode = "focus" /\ listeners # <<>>

\* C28: a toggle decides by the pair (id, detail): if no entry of the kill
\* list has the pair of the descriptor picked, one entry with it is inserted
\* and no entry is removed; if an entry has it, one entry with that pair is
\* removed and no other pair gains or loses an entry.  This holds for ids and
\* details that contain the "|" character.
C28_ToggleByIdAndDetail ==
  [][ \A app \in PickerApps \cup SeparatorApps :
        HandleAppSelection(app) =>
          LET Count(list, a) ==
                Cardinality({k \in DOMAIN list :
                               list[k].id = a.id /\ list[k].detail = a.detail})
          IN /\ Count(appKillList', app) =
                  (IF Count(appKillList, app) = 0 THEN 1
                   ELSE Count(appKillList, app) - 1)
             /\ \A other \in (PickerApps \cup SeparatorApps) :
                  (other.id # app.id \/ other.detail # app.detail)
                    => Count(appKillList', other) = Count(appKillList, other) ]_vars

\* C29: when every scheduled tick fires and every exec call settles, a
\* session that is running and left alone alternates between Focus and Break
\* for ever: from any state where it is running it is later running in Break
\* and later running in Focus.
C29_AlternatesForever ==
  /\ isRunning ~> (isRunning /\ ~isFocus /\ timers # {})
  /\ isRunning ~> (isRunning /\ isFocus /\ timers # {})

C29_Witness ==
  /\ lastOp = "tick" /\ isFocus /\ isRunning /\ timers # {}
  /\ relaunchChan # <<>>

\* s is an initial segment of t.
IsPrefix(s, t) == Len(s) <= Len(t) /\ \A k \in DOMAIN s : s[k] = t[k]

C31_SchedulerOnlyWhileRunning == timers # {} => isRunning

\* C32: after a Reset and before the next press of the button, a reply to a
\* Terminator call neither sets isRunning, nor starts a tick scheduler, nor
\* puts anything into killedAppsList.
C32_ResetNotUndoneByReply ==
  [][ (lastOp = "resetTimer" /\ DeliverReply)
        => /\ ~isRunning' /\ timers' = {} /\ killedAppsList' = <<>> ]_vars

\* C33: an entry of killedAppsList stays there until relaunchKilledApps
\* empties the list: the step that stores the result of a Terminator
\* invocation drops no entry that has not been handed to the Relauncher.
C33_KilledKeptUntilHandOff ==
  [][ DeliverReply => Range(killedAppsList) \subseteq Range(killedAppsList') ]_vars

\* C34: a reply on 'apps:kill-reply' resolves the wait of the invocation it
\* answers and no other: when it is delivered a listener of that invocation
\* is waiting, and the listeners of other invocations stay registered.
C34_ReplyResolvesOwnWait ==
  [][ DeliverReply =>
        LET reply == Head(replyChan) IN
          /\ \E k \in DOMAIN listeners : listeners[k].inv = reply.inv
          /\ \A k \in DOMAIN listeners :
               listeners[k].inv # reply.inv => listeners[k] \in Range(listeners') ]_vars

\* C35: once initializeSettings has run, timeLeft is at every moment between
\* two handlers a whole number of seconds, at least 0 and at most the full
\* duration the inputs configure for the current mode.
C35_TimeLeftWithinDuration ==
  timeLeft \in Nat /\ timeLeft <= FullDuration

C35_Witness ==
  /\ lastOp = "tick" /\ ~isFocus /\ isRunning /\ timeLeft = 0
  /\ focusTimeInput = Num(DefaultFocusTime) /\ breakTimeInput = Num(DefaultBreakTime)

\* C36: a change of the focus or the break duration, in any state, does what
\* a press of Reset would do with the new value in the input: not running, no
\* scheduler, Focus, timeLeft the full focus duration now configured, and
\* killedAppsList handed to the Relauncher and emptied.
C36_DurationChangeResets ==
  [][ (\E v \in ValidDurations : ChangeFocusTime(v) \/ ChangeBreakTime(v))
        => /\ ~isRunning' /\ timers' = {} /\ timerInterval' = 0
           /\ isFocus' /\ trayMode' = "focus"
           /\ timeLeft' = focusTimeInput'.n * SecondsPerMinute
           /\ timeLeft' <= FullDuration'
           /\ killedAppsList' = <<>>
           /\ relaunchChan' = (IF killedAppsList # <<>>
                                 THEN Append(relaunchChan, killedAppsList)
                                 ELSE relaunchChan) ]_vars

C36_Witness ==
  /\ lastOp = "changeBreakTime" /\ breakTimeInput = Num(2) /\ focusTimeInput = Num(2)
  /\ ~isRunning /\ isFocus /\ timeLeft = 2 * SecondsPerMinute
  /\ killedAppsList = <<>> /\ relaunchChan = << <<Slack>> >>

====
